---- MODULE Spec2Model ----
(***************************************************************************)
(* MockedIoAbstraction (src/src/MockIoAbstraction.h): the deterministic    *)
(* mock backend of the IoAbstraction pin interface.  One action per public *)
(* member function; the private helpers and the Arduino bit macros are     *)
(* operators.                                                              *)
(*                                                                         *)
(* Pin modes and error kinds are symbolic: the numeric values of INPUT,    *)
(* OUTPUT and INPUT_PULLUP differ between Arduino cores, the code only     *)
(* compares them for equality, and 0xff (the constructor's "never          *)
(* configured" marker) differs from all three on every core.               *)
(***************************************************************************)
EXTENDS Integers, FiniteSets, Sequences, TLC

\* ------------------------------------------------------------------ bounds
\* Largest slot count a mock is constructed with (the code's default is 6).
MaxCycles == 2
\* Largest number of runLoop() calls counted since construction / resetIo().
MaxSyncs == 3

\* --------------------------------------------------------- program constants
\* uint8_t pinModes[16]
NumPins == 16
\* checkPinInRange: pin > 15
LastPin == 15
\* writePort / readPort: pin < 8 selects port A
PortBStart == 8
\* uint16_t snapshot words
WordMod == 65536
\* uint8_t port values
ByteMod == 256

INPUT == "INPUT"
OUTPUT == "OUTPUT"
INPUT_PULLUP == "INPUT_PULLUP"
\* pinModes[i] = 0xff in the constructor
UNSET == "0xff"

NO_ERROR == "NO_ERROR"
PIN_TOO_HIGH == "PIN_TOO_HIGH"
READ_NOT_INPUT == "READ_NOT_INPUT"
WRITE_NOT_OUTPUT == "WRITE_NOT_OUTPUT"
MockIoError == {NO_ERROR, PIN_TOO_HIGH, READ_NOT_INPUT, WRITE_NOT_OUTPUT}

NULL == "NULL"

\* ------------------------------------------------------------ input sets
\* The arguments the callers pass, one record per specification.  Each
\* specification varies one part of the object widely and the rest narrowly:
\*   cycles      slot counts N a mock is constructed with
\*   dirPins     pin arguments of pinDirection
\*   modes       modes passed to pinDirection
\*   eachStarts, eachModes   the ports (first pin) a setup loop configures
\*               pin by pin, and the mode it gives to all eight pins
\*   pins        pin arguments of writeValue and readValue
\*   values      values passed to writeValue
\*   portWrites  <<pin, byte>> arguments of writePort; readPort takes the pins
\*   seeds       words passed to setValueForReading
\*   handlers, intPins, intModes   arguments of attachInterrupt
\*   words       words seen through a snapshot pointer that a store past the
\*               pin table has moved
\* 171 = 0xAB, 205 = 0xCD, 52651 = 0xCDAB, 128 = 0x80, 32896 = 0x8080.  Every
\* pin argument is below 32, so that the shift in bitWrite (1UL << pin,
\* unsigned long of at least 32 bits) is defined.
RingInputs ==
    [cycles |-> 1..MaxCycles, dirPins |-> {3, 16}, modes |-> {OUTPUT},
     eachStarts |-> {0}, eachModes |-> {OUTPUT},
     pins |-> {3, 16}, values |-> {1},
     portWrites |-> {<<0, 171>>, <<8, 205>>}, seeds |-> {52651},
     handlers |-> {}, intPins |-> {5}, intModes |-> {"CHANGE"},
     words |-> {0, 52651}]

ErrInputs ==
    [cycles |-> {1}, dirPins |-> {7, 15, 16},
     modes |-> {INPUT, OUTPUT, INPUT_PULLUP},
     eachStarts |-> {0, 8}, eachModes |-> {INPUT, OUTPUT},
     pins |-> {7, 15, 16}, values |-> {1},
     portWrites |-> {<<0, 128>>, <<8, 128>>, <<16, 128>>}, seeds |-> {32896},
     handlers |-> {"H1"}, intPins |-> {5, 16}, intModes |-> {"CHANGE"},
     words |-> {0, 32896}]

IntInputs ==
    [cycles |-> {1, 2}, dirPins |-> {3, 16}, modes |-> {OUTPUT},
     eachStarts |-> {0}, eachModes |-> {OUTPUT},
     pins |-> {3}, values |-> {1},
     portWrites |-> {<<0, 171>>}, seeds |-> {52651},
     handlers |-> {"H1", "H2"}, intPins |-> {5, 16},
     intModes |-> {"CHANGE", "RISING"},
     words |-> {0, 52651}]

VARIABLES
    pinModes,        \* uint8_t pinModes[16]
    readValues,      \* uint16_t *readValues   (numberOfCycles words)
    writeValues,     \* uint16_t *writeValues  (numberOfCycles words)
    runLoopCalls,    \* int runLoopCalls: the current slot
    numberOfCycles,  \* int numberOfCycles: N
    error,           \* MockIoError error
    intHandler,      \* RawIntHandler intHandler
    intPin,          \* uint8_t intPin
    intMode,         \* uint8_t intMode
    syncs            \* runLoop() calls since construction or the last resetIo()

vars == <<pinModes, readValues, writeValues, runLoopCalls, numberOfCycles,
          error, intHandler, intPin, intMode, syncs>>

Slots == 0..(numberOfCycles - 1)

\* ------------------------------------------------------- Arduino bit macros
RECURSIVE Pow2(_)
Pow2(n) == IF n = 0 THEN 1 ELSE 2 * Pow2(n - 1)

\* bitRead(value, bit): ((value) >> (bit)) & 0x01
BitRead(value, bit) == (value \div Pow2(bit)) % 2

\* bitWrite(value, bit, b) on a uint16_t lvalue: bitSet / bitClear with
\* 1UL << bit, the result truncated to 16 bits (bits 16..31 fall away).
BitWrite(value, bit, b) ==
    IF bit > LastPin THEN value
    ELSE IF b THEN value + (1 - BitRead(value, bit)) * Pow2(bit)
    ELSE value - BitRead(value, bit) * Pow2(bit)

LowByte(w) == w % ByteMod
HighByte(w) == w \div ByteMod

\* ------------------------------------------------------------ private helpers
\* checkPinInRange(pin): the error after the call.
CheckPinInRange(err, pin) == IF pin > LastPin THEN PIN_TOO_HIGH ELSE err

IsInputMode(m) == m = INPUT \/ m = INPUT_PULLUP

\* checkPinsAre(mode, start, end): for(i = start; i < end; ++i); the error
\* after the call.
CheckPinsAre(err, modes, mode, start, end) ==
    IF mode = OUTPUT
    THEN IF \E i \in start..(end - 1) : modes[i] # OUTPUT
         THEN WRITE_NOT_OUTPUT ELSE err
    ELSE IF mode = INPUT
    THEN IF \E i \in start..(end - 1) : ~IsInputMode(modes[i])
         THEN READ_NOT_INPUT ELSE err
    ELSE err

\* ------------------------------------------------------------------- Init
\* The constructor followed by resetIo().  intHandler, intPin and intMode
\* are not initialised: they hold whatever the storage held.
InitIn(U) ==
    /\ numberOfCycles \in U.cycles
    /\ pinModes = [i \in 0..(NumPins - 1) |-> UNSET]
    /\ error = NO_ERROR
    /\ readValues = [i \in Slots |-> 0]
    /\ writeValues = [i \in Slots |-> 0]
    /\ runLoopCalls = 0
    /\ intHandler \in U.handlers \cup {NULL}
    /\ intPin \in U.intPins
    /\ intMode \in U.intModes
    /\ syncs = 0

\* ------------------------------------------------------------------ resetIo
ResetIo ==
    /\ readValues' = [i \in Slots |-> 0]
    /\ writeValues' = [i \in Slots |-> 0]
    /\ runLoopCalls' = 0
    /\ syncs' = 0
    /\ UNCHANGED <<pinModes, numberOfCycles, error, intHandler, intPin, intMode>>

\* ------------------------------------------------------------------ runLoop
\* runLoop() moving the written word on instead of copying it.
RunLoopClearsSlotLeft ==
    /\ syncs < MaxSyncs
    /\ LET currentWritten == writeValues[runLoopCalls]
           next == (runLoopCalls + 1) % numberOfCycles
       IN /\ runLoopCalls' = next
          /\ writeValues' = [[writeValues EXCEPT ![runLoopCalls] = 0]
                                EXCEPT ![next] = currentWritten]
    /\ syncs' = syncs + 1
    /\ UNCHANGED <<pinModes, readValues, numberOfCycles, error,
                   intHandler, intPin, intMode>>

RunLoop ==
    /\ syncs < MaxSyncs
    /\ LET currentWritten == writeValues[runLoopCalls]
           next == (runLoopCalls + 1) % numberOfCycles
       IN /\ runLoopCalls' = next
          /\ writeValues' = [writeValues EXCEPT ![next] = currentWritten]
    /\ syncs' = syncs + 1
    /\ UNCHANGED <<pinModes, readValues, numberOfCycles, error,
                   intHandler, intPin, intMode>>

\* ------------------------------------------------------------- pinDirection
\* pinModes[pin] = mode with pin > 15 stores one byte past the table, into the
\* members declared after it (readValues .. intMode) or past the object; which
\* one depends on the build's layout.  A hit member takes some value of its
\* type; a hit snapshot pointer makes the words seen through it arbitrary
\* (U.words).  err is the error checkPinInRange left.
\* The errors pinDirection(pin, ..) can leave: the one checkPinInRange left,
\* or for pin > 15 any, when the store lands on the error member.
PinDirectionErrors(pin) ==
    IF pin > LastPin THEN {CheckPinInRange(error, pin)} \cup MockIoError
    ELSE {CheckPinInRange(error, pin)}

WildStore(err, U) ==
    \/ /\ error' = err
       /\ UNCHANGED <<readValues, writeValues, runLoopCalls,
                      intHandler, intPin, intMode>>
    \/ /\ readValues' \in [Slots -> U.words]
       /\ error' = err
       /\ UNCHANGED <<writeValues, runLoopCalls, intHandler, intPin, intMode>>
    \/ /\ writeValues' \in [Slots -> U.words]
       /\ error' = err
       /\ UNCHANGED <<readValues, runLoopCalls, intHandler, intPin, intMode>>
    \/ /\ runLoopCalls' \in Slots
       /\ error' = err
       /\ UNCHANGED <<readValues, writeValues, intHandler, intPin, intMode>>
    \/ /\ error' \in MockIoError
       /\ UNCHANGED <<readValues, writeValues, runLoopCalls,
                      intHandler, intPin, intMode>>
    \/ /\ intHandler' \in U.handlers \cup {NULL}
       /\ error' = err
       /\ UNCHANGED <<readValues, writeValues, runLoopCalls, intPin, intMode>>
    \/ /\ intPin' \in U.intPins
       /\ error' = err
       /\ UNCHANGED <<readValues, writeValues, runLoopCalls, intHandler, intMode>>
    \/ /\ intMode' \in U.intModes
       /\ error' = err
       /\ UNCHANGED <<readValues, writeValues, runLoopCalls, intHandler, intPin>>

PinDirection(pin, mode, U) ==
    /\ IF pin > LastPin
       THEN /\ WildStore(CheckPinInRange(error, pin), U)
            /\ UNCHANGED pinModes
       ELSE /\ pinModes' = [pinModes EXCEPT ![pin] = mode]
            /\ error' = CheckPinInRange(error, pin)
            /\ UNCHANGED <<readValues, writeValues, runLoopCalls,
                           intHandler, intPin, intMode>>
    /\ error' \in PinDirectionErrors(pin)
    /\ UNCHANGED <<numberOfCycles, syncs>>

\* A fixture's setup loop: pinDirection(pin, mode) for each of the eight pins
\* of one port, start = 0 or 8.
PinDirectionEach(start, mode) ==
    /\ pinModes' = [i \in 0..(NumPins - 1) |->
                      IF i >= start /\ i < start + PortBStart
                      THEN mode ELSE pinModes[i]]
    /\ UNCHANGED <<readValues, writeValues, runLoopCalls, numberOfCycles,
                   error, intHandler, intPin, intMode, syncs>>

\* The values pinModes[pin] can read as: the table's entry, or for pin > 15
\* a byte of whatever follows the table.
ModeAt(pin) ==
    IF pin > LastPin THEN {INPUT, OUTPUT, INPUT_PULLUP, UNSET}
    ELSE {pinModes[pin]}

\* --------------------------------------------------------------- writeValue
\* The errors writeValue(pin, ..) can leave.
WriteValueErrors(pin) ==
    {IF m # OUTPUT THEN WRITE_NOT_OUTPUT ELSE CheckPinInRange(error, pin) :
        m \in ModeAt(pin)}

WriteValue(pin, value) ==
    /\ error' \in WriteValueErrors(pin)
    /\ writeValues' = [writeValues EXCEPT
                         ![runLoopCalls] = BitWrite(@, pin, value # 0)]
    /\ UNCHANGED <<pinModes, readValues, runLoopCalls, numberOfCycles,
                   intHandler, intPin, intMode, syncs>>

\* ---------------------------------------------------------------- readValue
\* The errors readValue(pin) can leave.
ReadValueErrors(pin) ==
    {IF ~IsInputMode(m) THEN READ_NOT_INPUT ELSE CheckPinInRange(error, pin) :
        m \in ModeAt(pin)}

ReadValue(pin) ==
    /\ error' \in ReadValueErrors(pin)
    /\ UNCHANGED <<pinModes, readValues, writeValues, runLoopCalls,
                   numberOfCycles, intHandler, intPin, intMode, syncs>>

\* What readValue(pin) can return.  bitRead shifts the promoted int by pin:
\* for pin > 15 that is the whole width of a 16-bit int, and the bit is any.
ReadValueReturns(pin) ==
    IF pin > LastPin THEN {0, 1}
    ELSE {BitRead(readValues[runLoopCalls], pin)}

\* ---------------------------------------------------------- attachInterrupt
\* The error attachInterrupt(pin, ..) leaves: it checks nothing.
AttachInterruptError(pin) == error

AttachInterrupt(pin, interruptHandler, mode) ==
    /\ intHandler' = interruptHandler
    /\ intPin' = pin
    /\ intMode' = mode
    /\ error' = AttachInterruptError(pin)
    /\ UNCHANGED <<pinModes, readValues, writeValues, runLoopCalls,
                   numberOfCycles, syncs>>

\* ---------------------------------------------------------------- writePort
\* (w & 0xff00) | portVal
ReplaceLowByte(w, portVal) == (w - LowByte(w)) + portVal
\* (w & 0x00ff) | (portVal << 8) with the mask dropped: portVal << 8 alone.
ReplaceHighByteNoMask(w, portVal) == (portVal * ByteMod) % WordMod
\* (w & 0x00ff) | (portVal << 8), stored to a uint16_t
ReplaceHighByte(w, portVal) == (LowByte(w) + portVal * ByteMod) % WordMod

\* The error writePort(pin, ..) leaves.
WritePortError(pin) ==
    IF pin < PortBStart
    THEN CheckPinsAre(CheckPinInRange(error, pin), pinModes, OUTPUT, 0, 7)
    ELSE CheckPinsAre(CheckPinInRange(error, pin), pinModes, INPUT, 8, 15)

WritePort(pin, portVal) ==
    /\ error' = WritePortError(pin)
    /\ writeValues' = [writeValues EXCEPT ![runLoopCalls] =
                         IF pin < PortBStart
                         THEN ReplaceLowByte(@, portVal)
                         ELSE ReplaceHighByte(@, portVal)]
    /\ UNCHANGED <<pinModes, readValues, runLoopCalls, numberOfCycles,
                   intHandler, intPin, intMode, syncs>>

\* ----------------------------------------------------------------- readPort
\* The error readPort(pin) leaves.
ReadPortErrorAfter(err, pin) ==
    IF pin < PortBStart
    THEN CheckPinsAre(CheckPinInRange(err, pin), pinModes, INPUT, 0, 7)
    ELSE CheckPinsAre(CheckPinInRange(err, pin), pinModes, INPUT, 8, 15)

ReadPortError(pin) == ReadPortErrorAfter(error, pin)

ReadPort(pin) ==
    /\ error' = ReadPortError(pin)
    /\ UNCHANGED <<pinModes, readValues, writeValues, runLoopCalls,
                   numberOfCycles, intHandler, intPin, intMode, syncs>>

\* What readPort(pin) returns: the word, or the word >> 8, as a uint8_t.
ReadPortReturn(pin) ==
    IF pin < PortBStart
    THEN readValues[runLoopCalls] % ByteMod
    ELSE HighByte(readValues[runLoopCalls]) % ByteMod

\* ------------------------------------------------------- setValueForReading
SetValueForReading(runLoopNo, val) ==
    /\ readValues' = [readValues EXCEPT ![runLoopNo] = val]
    /\ UNCHANGED <<pinModes, writeValues, runLoopCalls, numberOfCycles,
                   error, intHandler, intPin, intMode, syncs>>

\* ---------------------------------------------------------------- accessors
GetNumberOfRunLoops == runLoopCalls
GetWrittenValue(runLoopNo) == writeValues[runLoopNo]
GetErrorMode == error
GetInterruptFunction == intHandler
IsIntRegisteredAs(pin, mode) ==
    intPin = pin /\ intMode = mode /\ intHandler # NULL

\* ------------------------------------------------------- table accesses
\* The indices of pinModes each call reads or writes.
TableIndices == 0..(NumPins - 1)
\* pinModes[pin] = mode
PinDirectionAccess(pin) == {pin}
\* pinModes[pin] != OUTPUT
WriteValueAccess(pin) == {pin}
\* pinModes[pin] != INPUT && pinModes[pin] != INPUT_PULLUP
ReadValueAccess(pin) == {pin}
\* checkPinsAre(mode, start, end): pinModes[i] for i = start .. end - 1
CheckPinsAreAccess(start, end) == start..(end - 1)
WritePortAccess(pin) ==
    IF pin < PortBStart THEN CheckPinsAreAccess(0, 7) ELSE CheckPinsAreAccess(8, 15)
ReadPortAccess(pin) ==
    IF pin < PortBStart THEN CheckPinsAreAccess(0, 7) ELSE CheckPinsAreAccess(8, 15)

\* ======================================================= bus-backed drivers
\* IoAbstractionWire.h declares PCF8574IoAbstraction and
\* MCP23017IoAbstraction: their data members, their member functions and the
\* register addresses.  The member functions' bodies are not among the
\* sources; they are written here from the design document (sections 4.1 to
\* 4.3 and 6).  Where the document leaves an effect open, every outcome it
\* allows is taken.
VARIABLES
    lastRead,         \* PCF8574:  uint8_t lastRead
    toWrite,          \* PCF8574:  uint8_t toWrite
    needsWrite8574,   \* PCF8574:  bool needsWrite
    portCache,        \* MCP23017: uint16_t portCache
    needsWrite23017,  \* MCP23017: bool needsWrite
    needsInit,        \* MCP23017: bool needsInit
    wiring,           \* MCP23017: intMode, intPinA, intPinB
    device,           \* MCP23017: the chip's configuration registers, by address
    bus,              \* the bus transactions the latest call issued, in order
    backend           \* the driver the factory built: ioFrom8574 or iofrom23017

pcfVars == <<lastRead, toWrite, needsWrite8574>>
mcpVars == <<portCache, needsWrite23017, needsInit, wiring, device>>
wireVars == <<pcfVars, mcpVars, bus, backend>>

\* #define IODIR_ADDR 0x00 .. GPIO_ADDR 0x12
IODIR_ADDR == 0
GPINTENA_ADDR == 4
DEFVAL_ADDR == 6
INTCON_ADDR == 8
IOCON_ADDR == 10
GPPU_ADDR == 12
GPIO_ADDR == 18
\* #define IOCON_MIRROR_BIT 6
IOCON_MIRROR_BIT == 6
\* interruptPin / intPinA / intPinB of 0xff: no interrupt wired
NoIntPin == 255

ConfigRegisters == {IODIR_ADDR, GPINTENA_ADDR, DEFVAL_ADDR, INTCON_ADDR,
                    IOCON_ADDR, GPPU_ADDR}

\* One bus transaction: a write of val to reg, or a read of reg returning val.
\* The PCF8574 has a single port and no register address.
NoReg == "none"
BusWrite(reg, val) == [op |-> "write", reg |-> reg, val |-> val]
BusRead(reg, val) == [op |-> "read", reg |-> reg, val |-> val]

\* bitWrite on a uint8_t lvalue: bits 8 and above fall away.
BitWriteByte(value, bit, b) ==
    IF bit >= PortBStart THEN value ELSE BitWrite(value, bit, b)

\* The arguments the callers pass to the drivers, and the levels the chips
\* return on a read.
Pcf8574Inputs ==
    [pins |-> {0, 7}, modes |-> {INPUT, INPUT_PULLUP, OUTPUT},
     values |-> {0, 1}, ports |-> {171},
     intModes |-> {"CHANGE"}, levels |-> {0, 129, 171, 255}]

Mcp23017Inputs ==
    [pins |-> {1}, modes |-> {INPUT, INPUT_PULLUP, OUTPUT},
     values |-> {0, 1}, portWrites |-> {<<0, 171>>, <<8, 205>>},
     intModes |-> {"CHANGE", "RISING", "FALLING"},
     levels |-> {0, 52651}, powerOn |-> {0, 65535},
     chipModes |-> {6}, chipIntPins |-> {<<255, 255>>, <<2, 2>>, <<2, 3>>}]

\* The mock, the drivers and the decorator at rest, for the specifications
\* that exercise another class.
WireIdle ==
    /\ lastRead = 0 /\ toWrite = 0 /\ needsWrite8574 = FALSE
    /\ portCache = 0 /\ needsWrite23017 = FALSE /\ needsInit = TRUE
    /\ wiring = [intMode |-> 0, intPinA |-> NoIntPin, intPinB |-> NoIntPin]
    /\ device = [r \in ConfigRegisters |-> 0]
    /\ bus = <<>>
    /\ backend = NULL

\* ------------------------------------------------------ PCF8574IoAbstraction
\* Construction.  Section 3: the handle starts with its caches; whether the
\* dirty flag starts set is left open.
Pcf8574Init ==
    /\ lastRead = 0
    /\ toWrite = 0
    /\ needsWrite8574 \in BOOLEAN
    /\ portCache = 0 /\ needsWrite23017 = FALSE /\ needsInit = TRUE
    /\ wiring = [intMode |-> 0, intPinA |-> NoIntPin, intPinB |-> NoIntPin]
    /\ device = [r \in ConfigRegisters |-> 0]
    /\ bus = <<>>
    /\ backend = "PCF8574"

\* Section 4.2: input, plain or pull-up, is the output bit written high, and
\* the cache is dirty.  What OUTPUT does to the bit and the flag is left open.
\* The pull-up written for INPUT_PULLUP only, plain INPUT leaving the bit.
Pcf8574DirectionCachePullUpOnly(pin, mode) ==
    IF mode = INPUT_PULLUP THEN {BitWriteByte(toWrite, pin, TRUE)}
    ELSE IF mode = INPUT THEN {toWrite}
    ELSE {toWrite, BitWriteByte(toWrite, pin, FALSE)}

\* The output caches pinDirection(pin, mode) can leave.
Pcf8574DirectionCache(pin, mode) ==
    IF IsInputMode(mode) THEN {BitWriteByte(toWrite, pin, TRUE)}
    ELSE {toWrite, BitWriteByte(toWrite, pin, FALSE)}

\* The dirty flags pinDirection(pin, mode) can leave.
Pcf8574DirectionDirty(mode) ==
    IF IsInputMode(mode) THEN {TRUE} ELSE {needsWrite8574, TRUE}

Pcf8574PinDirection(pin, mode) ==
    /\ toWrite' \in Pcf8574DirectionCache(pin, mode)
    /\ needsWrite8574' \in Pcf8574DirectionDirty(mode)
    /\ bus' = <<>>
    /\ UNCHANGED <<lastRead, mcpVars>>

Pcf8574WriteValue(pin, value) ==
    /\ toWrite' = BitWriteByte(toWrite, pin, value # 0)
    /\ needsWrite8574' = TRUE
    /\ bus' = <<>>
    /\ UNCHANGED <<lastRead, mcpVars>>

Pcf8574ReadValueReturn(pin) ==
    IF pin >= PortBStart THEN 0 ELSE BitRead(lastRead, pin)

Pcf8574ReadValue(pin) ==
    /\ bus' = <<>>
    /\ UNCHANGED <<pcfVars, mcpVars>>

Pcf8574WritePort(pin, port) ==
    /\ toWrite' = port
    /\ needsWrite8574' = TRUE
    /\ bus' = <<>>
    /\ UNCHANGED <<lastRead, mcpVars>>

Pcf8574ReadPortReturn(pin) == lastRead

Pcf8574ReadPort(pin) ==
    /\ bus' = <<>>
    /\ UNCHANGED <<pcfVars, mcpVars>>

\* Section 4.2: one any-change mode, wired at the microcontroller's pin.
Pcf8574AttachInterrupt(pin, mode) ==
    /\ bus' = <<>>
    /\ UNCHANGED <<pcfVars, mcpVars>>

\* The transactions runLoop() issues when the chip returns level: writeData()
\* if dirty, then readData().
Pcf8574RunLoopBus(level) ==
    (IF needsWrite8574 THEN <<BusWrite(NoReg, toWrite)>> ELSE <<>>)
       \o <<BusRead(NoReg, level)>>

Pcf8574RunLoop(level) ==
    /\ bus' = Pcf8574RunLoopBus(level)
    /\ needsWrite8574' = FALSE
    /\ lastRead' = level
    /\ UNCHANGED <<toWrite, mcpVars>>

\* ----------------------------------------------------- MCP23017IoAbstraction
PcfIdle == lastRead = 0 /\ toWrite = 0 /\ needsWrite8574 = FALSE

\* Construction.  Section 4.3: initialisation is pending; whether the dirty
\* flag starts set is left open.  The chip's registers hold what they held.
Mcp23017Init ==
    /\ PcfIdle
    /\ portCache = 0
    /\ needsWrite23017 \in BOOLEAN
    /\ needsInit = TRUE
    /\ \E m \in Mcp23017Inputs.chipModes, p \in Mcp23017Inputs.chipIntPins :
          wiring = [intMode |-> m, intPinA |-> p[1], intPinB |-> p[2]]
    /\ \E w \in Mcp23017Inputs.powerOn :
          device = [r \in ConfigRegisters |-> IF r = IODIR_ADDR THEN w ELSE 0]
    /\ bus = <<>>
    /\ backend = "MCP23017"

\* toggleBitInRegister(regAddr, theBit, value): read the register pair,
\* change the bit, write the pair back.
ToggledWord(regAddr, theBit, value) == BitWrite(device[regAddr], theBit, value)
ToggleBitInRegisterBus(regAddr, theBit, value) ==
    <<BusRead(regAddr, device[regAddr]),
      BusWrite(regAddr, ToggledWord(regAddr, theBit, value))>>

\* Section 4.3: the direction and the pull-up bit of the pin, through the bit
\* helper.  Whether the data cache is marked dirty is left open.
Mcp23017PinDirectionBus(pin, mode) ==
    ToggleBitInRegisterBus(IODIR_ADDR, pin, IsInputMode(mode))
       \o ToggleBitInRegisterBus(GPPU_ADDR, pin, mode = INPUT_PULLUP)

Mcp23017PinDirection(pin, mode) ==
    /\ device' = [device EXCEPT
                    ![IODIR_ADDR] = ToggledWord(IODIR_ADDR, pin, IsInputMode(mode)),
                    ![GPPU_ADDR] = ToggledWord(GPPU_ADDR, pin, mode = INPUT_PULLUP)]
    /\ bus' = Mcp23017PinDirectionBus(pin, mode)
    /\ needsWrite23017' \in {needsWrite23017, TRUE}
    /\ UNCHANGED <<pcfVars, portCache, needsInit, wiring>>

Mcp23017WriteValue(pin, value) ==
    /\ portCache' = BitWrite(portCache, pin, value # 0)
    /\ needsWrite23017' = TRUE
    /\ bus' = <<>>
    /\ UNCHANGED <<pcfVars, needsInit, wiring, device>>

Mcp23017ReadValueReturn(pin) ==
    IF pin > LastPin THEN 0 ELSE BitRead(portCache, pin)

Mcp23017ReadValue(pin) ==
    /\ bus' = <<>>
    /\ UNCHANGED <<pcfVars, mcpVars>>

Mcp23017WritePort(pin, port) ==
    /\ portCache' = IF pin < PortBStart
                    THEN ReplaceLowByte(portCache, port)
                    ELSE ReplaceHighByte(portCache, port)
    /\ needsWrite23017' = TRUE
    /\ bus' = <<>>
    /\ UNCHANGED <<pcfVars, needsInit, wiring, device>>

Mcp23017ReadPortReturn(pin) ==
    IF pin < PortBStart THEN LowByte(portCache) ELSE HighByte(portCache)

Mcp23017ReadPort(pin) ==
    /\ bus' = <<>>
    /\ UNCHANGED <<pcfVars, mcpVars>>

\* Section 4.3: the interrupt-enable bit of the pin and, for the edge modes,
\* its interrupt-control bit and its default-compare bit.
Mcp23017AttachInterruptBus(pin, mode) ==
    ToggleBitInRegisterBus(GPINTENA_ADDR, pin, TRUE)
       \o (IF mode # "CHANGE"
           THEN ToggleBitInRegisterBus(INTCON_ADDR, pin, TRUE)
                   \o ToggleBitInRegisterBus(DEFVAL_ADDR, pin, mode = "FALLING")
           ELSE <<>>)

Mcp23017AttachInterrupt(pin, mode) ==
    /\ device' = IF mode # "CHANGE"
                 THEN [device EXCEPT
                         ![GPINTENA_ADDR] = ToggledWord(GPINTENA_ADDR, pin, TRUE),
                         ![INTCON_ADDR] = ToggledWord(INTCON_ADDR, pin, TRUE),
                         ![DEFVAL_ADDR] = ToggledWord(DEFVAL_ADDR, pin, mode = "FALLING")]
                 ELSE [device EXCEPT
                         ![GPINTENA_ADDR] = ToggledWord(GPINTENA_ADDR, pin, TRUE)]
    /\ bus' = Mcp23017AttachInterruptBus(pin, mode)
    /\ UNCHANGED <<pcfVars, portCache, needsWrite23017, needsInit, wiring>>

\* initDevice(): the configuration word, from the interrupt mode and the
\* wiring: no interrupt pin leaves interrupts off, one shared pin sets the
\* mirror bit, one pin per port leaves it clear.
ConfigWord ==
    IF wiring.intPinA = NoIntPin /\ wiring.intPinB = NoIntPin THEN 0
    ELSE IF wiring.intPinA = wiring.intPinB
    THEN BitWrite(wiring.intMode, IOCON_MIRROR_BIT, TRUE)
    ELSE wiring.intMode

InitDeviceBus == <<BusWrite(IOCON_ADDR, ConfigWord)>>

\* runLoop() flushing the cache whether or not it is dirty.
Mcp23017RunLoopBusAlwaysWrites(level) ==
    (IF needsInit THEN InitDeviceBus ELSE <<>>)
       \o <<BusWrite(GPIO_ADDR, portCache), BusRead(GPIO_ADDR, level)>>

\* The transactions runLoop() issues when the chip returns level:
\* initDevice() if pending, writeToDevice(GPIO_ADDR, portCache) if dirty, then
\* readFromDevice(GPIO_ADDR).
Mcp23017RunLoopBus(level) ==
    (IF needsInit THEN InitDeviceBus ELSE <<>>)
       \o (IF needsWrite23017 THEN <<BusWrite(GPIO_ADDR, portCache)>> ELSE <<>>)
       \o <<BusRead(GPIO_ADDR, level)>>

\* runLoop() with the pending-initialisation flag never cleared.
Mcp23017RunLoopKeepsPending(level) ==
    /\ bus' = Mcp23017RunLoopBus(level)
    /\ device' = IF needsInit THEN [device EXCEPT ![IOCON_ADDR] = ConfigWord]
                 ELSE device
    /\ needsInit' = needsInit
    /\ needsWrite23017' = FALSE
    /\ portCache' = level
    /\ UNCHANGED <<pcfVars, wiring>>

Mcp23017RunLoop(level) ==
    /\ bus' = Mcp23017RunLoopBus(level)
    /\ device' = IF needsInit THEN [device EXCEPT ![IOCON_ADDR] = ConfigWord]
                 ELSE device
    /\ needsInit' = FALSE
    /\ needsWrite23017' = FALSE
    /\ portCache' = level
    /\ UNCHANGED <<pcfVars, wiring>>

\* ====================================================== LoggingIoAbstraction
\* The decorator around a MockedIoAbstraction delegate.
VARIABLES
    writeVals,   \* uint32_t writeVals, as its four bytes, lowest first
    ports        \* int ports

logVars == <<writeVals, ports>>

LogInputs ==
    [cycles |-> {2}, dirPins |-> {7}, modes |-> {INPUT, OUTPUT},
     eachStarts |-> {0, 8}, eachModes |-> {INPUT}, pins |-> {3}, values |-> {1},
     portWrites |-> {<<0, 171>>, <<8, 205>>}, seeds |-> {52651},
     handlers |-> {"H1"}, intPins |-> {5}, intModes |-> {"CHANGE"},
     words |-> {0}, ports |-> 0..3]

LogIdle == writeVals = [i \in 0..3 |-> 0] /\ ports = 0

\* LoggingIoAbstraction(delegate, ports) around a newly built mock.
LogInit ==
    /\ InitIn(LogInputs)
    /\ writeVals = [i \in 0..3 |-> 0]
    /\ ports \in LogInputs.ports

LogPinDirection(pin, mode, U) ==
    /\ PinDirection(pin, mode, U)
    /\ UNCHANGED logVars

\* bitWrite(writeVals, pin, value) on the uint32_t, then the delegate.
LogWriteValue(pin, value) ==
    /\ writeVals' = [writeVals EXCEPT ![pin \div PortBStart] =
                       BitWriteByte(@, pin % PortBStart, value # 0)]
    /\ ports' = ports
    /\ WriteValue(pin, value)

LogReadValue(pin) ==
    /\ ReadValue(pin)
    /\ UNCHANGED logVars

LogAttachInterrupt(pin, interruptHandler, mode) ==
    /\ AttachInterrupt(pin, interruptHandler, mode)
    /\ UNCHANGED logVars

\* writeVals with the byte of the port the pin selects replaced by portVal.
LoggedPort(pin, portVal) ==
    LET byte == IF pin < 8 THEN 0
                ELSE IF pin < 16 THEN 1
                ELSE IF pin < 24 THEN 2
                ELSE 3
    IN [writeVals EXCEPT ![byte] = portVal]

LogWritePort(pin, portVal) ==
    /\ writeVals' = LoggedPort(pin, portVal)
    /\ ports' = ports
    /\ WritePort(pin, portVal)

LogReadPort(pin) ==
    /\ ReadPort(pin)
    /\ UNCHANGED logVars

\* The delegate's error after the reads runLoop() logs,
\* delegate->readPort(i * 8) for i = first .. ports - 1, starting from err.
RECURSIVE LoggedReadsError(_, _)
LoggedReadsError(err, first) ==
    IF first >= ports THEN err
    ELSE LoggedReadsError(ReadPortErrorAfter(err, first * PortBStart), first + 1)

\* The delegate's error after the decorator's runLoop().
LogRunLoopError == LoggedReadsError(error, 0)

\* runLoop(): print, delegate->runLoop(), then delegate->readPort(i * 8) for
\* each logged port.
LogRunLoop ==
    /\ syncs < MaxSyncs
    /\ LET currentWritten == writeValues[runLoopCalls]
           next == (runLoopCalls + 1) % numberOfCycles
       IN /\ runLoopCalls' = next
          /\ writeValues' = [writeValues EXCEPT ![next] = currentWritten]
    /\ syncs' = syncs + 1
    /\ error' = LogRunLoopError
    /\ UNCHANGED <<pinModes, readValues, numberOfCycles,
                   intHandler, intPin, intMode>>
    /\ UNCHANGED logVars

\* ----------------------------------------------------------- specifications
\* One call on the mock; the drivers and the decorator are not involved.
NextIn(U) ==
    \/ ResetIo /\ UNCHANGED <<wireVars, logVars>>
    \/ RunLoop /\ UNCHANGED <<wireVars, logVars>>
    \/ \E pin \in U.dirPins, mode \in U.modes :
         PinDirection(pin, mode, U) /\ UNCHANGED <<wireVars, logVars>>
    \/ \E start \in U.eachStarts, mode \in U.eachModes :
         PinDirectionEach(start, mode) /\ UNCHANGED <<wireVars, logVars>>
    \/ \E pin \in U.pins, value \in U.values :
         WriteValue(pin, value) /\ UNCHANGED <<wireVars, logVars>>
    \/ \E pin \in U.pins :
         ReadValue(pin) /\ UNCHANGED <<wireVars, logVars>>
    \/ \E pin \in U.intPins, h \in U.handlers \cup {NULL}, mode \in U.intModes :
         AttachInterrupt(pin, h, mode) /\ UNCHANGED <<wireVars, logVars>>
    \/ \E w \in U.portWrites :
         WritePort(w[1], w[2]) /\ UNCHANGED <<wireVars, logVars>>
    \/ \E w \in U.portWrites :
         ReadPort(w[1]) /\ UNCHANGED <<wireVars, logVars>>
    \/ \E runLoopNo \in Slots, val \in U.seeds :
         SetValueForReading(runLoopNo, val) /\ UNCHANGED <<wireVars, logVars>>

\* The snapshot ring and the port bytes.
Init == InitIn(RingInputs) /\ WireIdle /\ LogIdle
Next == NextIn(RingInputs)
Spec == Init /\ [][Next]_vars

\* The pin modes and the last error.
InitErr == InitIn(ErrInputs) /\ WireIdle /\ LogIdle
NextErr == NextIn(ErrInputs)
SpecErr == InitErr /\ [][NextErr]_vars

\* The interrupt registration.
InitInt == InitIn(IntInputs) /\ WireIdle /\ LogIdle
NextInt == NextIn(IntInputs)
SpecInt == InitInt /\ [][NextInt]_vars

\* A mock that no call reaches, beside a driver under test.
MockIdle ==
    InitIn([cycles |-> {1}, handlers |-> {}, intPins |-> {0}, intModes |-> {"CHANGE"}])

\* The two expander drivers: the factory builds one, the calls go to it.
InitWire == (Pcf8574Init \/ Mcp23017Init) /\ MockIdle /\ LogIdle
NextWire ==
    \/ \E pin \in Pcf8574Inputs.pins, mode \in Pcf8574Inputs.modes :
         /\ backend = "PCF8574" /\ Pcf8574PinDirection(pin, mode)
         /\ UNCHANGED <<backend, vars, logVars>>
    \/ \E pin \in Pcf8574Inputs.pins, value \in Pcf8574Inputs.values :
         /\ backend = "PCF8574" /\ Pcf8574WriteValue(pin, value)
         /\ UNCHANGED <<backend, vars, logVars>>
    \/ \E pin \in Pcf8574Inputs.pins :
         /\ backend = "PCF8574" /\ Pcf8574ReadValue(pin)
         /\ UNCHANGED <<backend, vars, logVars>>
    \/ \E pin \in Pcf8574Inputs.pins, port \in Pcf8574Inputs.ports :
         /\ backend = "PCF8574" /\ Pcf8574WritePort(pin, port)
         /\ UNCHANGED <<backend, vars, logVars>>
    \/ \E pin \in Pcf8574Inputs.pins :
         /\ backend = "PCF8574" /\ Pcf8574ReadPort(pin)
         /\ UNCHANGED <<backend, vars, logVars>>
    \/ \E pin \in Pcf8574Inputs.pins, mode \in Pcf8574Inputs.intModes :
         /\ backend = "PCF8574" /\ Pcf8574AttachInterrupt(pin, mode)
         /\ UNCHANGED <<backend, vars, logVars>>
    \/ \E level \in Pcf8574Inputs.levels :
         /\ backend = "PCF8574" /\ Pcf8574RunLoop(level)
         /\ UNCHANGED <<backend, vars, logVars>>
    \/ \E pin \in Mcp23017Inputs.pins, mode \in Mcp23017Inputs.modes :
         /\ backend = "MCP23017" /\ Mcp23017PinDirection(pin, mode)
         /\ UNCHANGED <<backend, vars, logVars>>
    \/ \E pin \in Mcp23017Inputs.pins, value \in Mcp23017Inputs.values :
         /\ backend = "MCP23017" /\ Mcp23017WriteValue(pin, value)
         /\ UNCHANGED <<backend, vars, logVars>>
    \/ \E pin \in Mcp23017Inputs.pins :
         /\ backend = "MCP23017" /\ Mcp23017ReadValue(pin)
         /\ UNCHANGED <<backend, vars, logVars>>
    \/ \E w \in Mcp23017Inputs.portWrites :
         /\ backend = "MCP23017" /\ Mcp23017WritePort(w[1], w[2])
         /\ UNCHANGED <<backend, vars, logVars>>
    \/ \E w \in Mcp23017Inputs.portWrites :
         /\ backend = "MCP23017" /\ Mcp23017ReadPort(w[1])
         /\ UNCHANGED <<backend, vars, logVars>>
    \/ \E pin \in Mcp23017Inputs.pins, mode \in Mcp23017Inputs.intModes :
         /\ backend = "MCP23017" /\ Mcp23017AttachInterrupt(pin, mode)
         /\ UNCHANGED <<backend, vars, logVars>>
    \/ \E level \in Mcp23017Inputs.levels :
         /\ backend = "MCP23017" /\ Mcp23017RunLoop(level)
         /\ UNCHANGED <<backend, vars, logVars>>
SpecWire == InitWire /\ [][NextWire]_wireVars

\* The decorator around a mock.
InitLog == LogInit /\ WireIdle
NextLog ==
    \/ \E pin \in LogInputs.dirPins, mode \in LogInputs.modes :
         LogPinDirection(pin, mode, LogInputs) /\ UNCHANGED wireVars
    \/ \E start \in LogInputs.eachStarts, mode \in LogInputs.eachModes :
         PinDirectionEach(start, mode) /\ UNCHANGED <<wireVars, logVars>>
    \/ \E pin \in LogInputs.pins, value \in LogInputs.values :
         LogWriteValue(pin, value) /\ UNCHANGED wireVars
    \/ \E pin \in LogInputs.pins :
         LogReadValue(pin) /\ UNCHANGED wireVars
    \/ \E pin \in LogInputs.intPins, h \in LogInputs.handlers, mode \in LogInputs.intModes :
         LogAttachInterrupt(pin, h, mode) /\ UNCHANGED wireVars
    \/ \E w \in LogInputs.portWrites :
         LogWritePort(w[1], w[2]) /\ UNCHANGED wireVars
    \/ \E w \in LogInputs.portWrites :
         LogReadPort(w[1]) /\ UNCHANGED wireVars
    \/ LogRunLoop /\ UNCHANGED wireVars
    \/ \E runLoopNo \in Slots, val \in LogInputs.seeds :
         SetValueForReading(runLoopNo, val) /\ UNCHANGED <<wireVars, logVars>>
SpecLog == InitLog /\ [][NextLog]_<<vars, logVars>>

\* ================================================================== claims
\* Steps of the interface, as relations between two states.
PinDirectionStep(U) ==
    \E pin \in U.dirPins, mode \in U.modes : PinDirection(pin, mode, U)
PinDirectionEachStep(U) ==
    \E start \in U.eachStarts, mode \in U.eachModes : PinDirectionEach(start, mode)
\* A pinDirection call with a pin past the table: the store lands elsewhere.
WildStep(U) ==
    \E pin \in U.dirPins, mode \in U.modes :
        pin > LastPin /\ PinDirection(pin, mode, U)
WriteValueStep(U) ==
    \E pin \in U.pins, value \in U.values : WriteValue(pin, value)
ReadValueStep(U) == \E pin \in U.pins : ReadValue(pin)
WritePortStep(U) == \E w \in U.portWrites : WritePort(w[1], w[2])
ReadPortStep(U) == \E w \in U.portWrites : ReadPort(w[1])
AttachInterruptStep(U) ==
    \E pin \in U.intPins, h \in U.handlers \cup {NULL}, mode \in U.intModes :
        AttachInterrupt(pin, h, mode)

\* ---------------------------------------------------------------------- C1
\* C1: after k calls to runLoop() since construction or resetIo(),
\* interleaved with any other interface operations, the current slot index
\* equals k mod N.
C1_IndexIsSyncsModN == runLoopCalls = syncs % numberOfCycles

\* The part of C1 the code keeps: every step other than a pinDirection call
\* with a pin past the table keeps the index equal to k mod N.
C1_IndexKeptInsideTable ==
    [][(~WildStep(RingInputs) /\ C1_IndexIsSyncsModN) => C1_IndexIsSyncsModN']_vars

\* ---------------------------------------------------------------------- C2
\* C2: when runLoop() is called with the current slot i holding V, slot
\* (i+1) mod N holds V right after it; and every slot holding the current
\* word keeps it over every call that is not writeValue, writePort or resetIo.
C2_WritePersistenceBody(U) ==
    /\ RunLoop =>
         /\ runLoopCalls' = (runLoopCalls + 1) % numberOfCycles
         /\ writeValues'[(runLoopCalls + 1) % numberOfCycles]
              = writeValues[runLoopCalls]
    /\ ~(WriteValueStep(U) \/ WritePortStep(U) \/ ResetIo) =>
         \A s \in Slots :
            writeValues[s] = writeValues[runLoopCalls]
               => writeValues'[s] = writeValues[s]

C2_WritePersistence == [][C2_WritePersistenceBody(RingInputs)]_vars

\* The part of C2 the code keeps: the same, over every step other than a
\* pinDirection call with a pin past the table.
C2_WritePersistenceInsideTable ==
    [][~WildStep(RingInputs) => C2_WritePersistenceBody(RingInputs)]_vars

\* ---------------------------------------------------------------------- C8
\* C8: runLoop, pinDirection, writeValue, writePort, readValue, readPort and
\* attachInterrupt leave every slot's read bitmap unchanged.
C8_ReadFrameBody(U) ==
    (\/ RunLoop \/ PinDirectionStep(U) \/ PinDirectionEachStep(U)
     \/ WriteValueStep(U) \/ WritePortStep(U) \/ ReadValueStep(U)
     \/ ReadPortStep(U) \/ AttachInterruptStep(U))
        => readValues' = readValues

C8_ReadValuesNeverPropagated == [][C8_ReadFrameBody(RingInputs)]_vars

\* The part of C8 the code keeps: the same, over every step other than a
\* pinDirection call with a pin past the table.
C8_ReadFrameInsideTable ==
    [][~WildStep(RingInputs) => C8_ReadFrameBody(RingInputs)]_vars

\* ---------------------------------------------------------------------- C9
\* C9: writePort with a pin < 8 replaces only the low byte and writePort with
\* a pin >= 8 only the high byte of the current 16-bit word; runLoop carries
\* the word into the slot it enters (0xAB to port A and 0xCD to port B, then
\* sync, give 0xCDAB); and where the read word equals the written word,
\* readPort of port A returns the low byte and of port B the high byte.
C9_ReadsBackWhatWasWritten ==
    readValues[runLoopCalls] = writeValues[runLoopCalls] =>
       /\ ReadPortReturn(0) = LowByte(writeValues[runLoopCalls])
       /\ ReadPortReturn(PortBStart) = HighByte(writeValues[runLoopCalls])

C9_PortRoundTrip ==
    /\ []C9_ReadsBackWhatWasWritten
    /\ [][/\ \A w \in RingInputs.portWrites :
               WritePort(w[1], w[2]) =>
                  IF w[1] < PortBStart
                  THEN /\ LowByte(writeValues'[runLoopCalls]) = w[2]
                       /\ HighByte(writeValues'[runLoopCalls])
                            = HighByte(writeValues[runLoopCalls])
                  ELSE /\ HighByte(writeValues'[runLoopCalls]) = w[2]
                       /\ LowByte(writeValues'[runLoopCalls])
                            = LowByte(writeValues[runLoopCalls])
          /\ RunLoop => writeValues'[runLoopCalls'] = writeValues[runLoopCalls]
         ]_vars

\* 0xAB went to port A and 0xCD to port B, a sync followed, and the fixture
\* seeded the read word with 0xCDAB: the ports read back 0xAB and 0xCD.
C9_Witness ==
    /\ syncs > 0
    /\ writeValues[runLoopCalls] = 52651
    /\ readValues[runLoopCalls] = writeValues[runLoopCalls]
    /\ ReadPortReturn(0) = 171
    /\ ReadPortReturn(PortBStart) = 205

\* ----------------------------------------------------------- C3 .. C7
\* The eight pins of the port a writePort / readPort pin argument selects.
PortOf(pin) == IF pin < PortBStart THEN 0..7 ELSE 8..15

\* A call that commits no violation: a pin inside the table, a write only to
\* pins configured OUTPUT, a read only from pins configured INPUT or
\* INPUT_PULLUP.
NoViolationStep(U) ==
    \/ ResetIo
    \/ RunLoop
    \/ \E pin \in U.dirPins, mode \in U.modes :
          pin <= LastPin /\ PinDirection(pin, mode, U)
    \/ PinDirectionEachStep(U)
    \/ \E pin \in U.pins, value \in U.values :
          pin <= LastPin /\ pinModes[pin] = OUTPUT /\ WriteValue(pin, value)
    \/ \E pin \in U.pins :
          pin <= LastPin /\ IsInputMode(pinModes[pin]) /\ ReadValue(pin)
    \/ \E w \in U.portWrites :
          /\ w[1] <= LastPin
          /\ \A i \in PortOf(w[1]) : pinModes[i] = OUTPUT
          /\ WritePort(w[1], w[2])
    \/ \E w \in U.portWrites :
          /\ w[1] <= LastPin
          /\ \A i \in PortOf(w[1]) : IsInputMode(pinModes[i])
          /\ ReadPort(w[1])
    \/ \E pin \in U.intPins, h \in U.handlers \cup {NULL}, mode \in U.intModes :
          pin <= LastPin /\ AttachInterrupt(pin, h, mode)
    \/ \E runLoopNo \in Slots, val \in U.seeds :
          SetValueForReading(runLoopNo, val)

\* C3: writeValue on a pin 0..15 whose mode is not OUTPUT sets last-error to
\* write-on-non-output, and a later call that commits no violation never
\* changes last-error.
C3_SetByWriteValue ==
    \A pin \in ErrInputs.pins :
       (pin <= LastPin /\ pinModes[pin] # OUTPUT)
          => WriteValueErrors(pin) = {WRITE_NOT_OUTPUT}

C3_WriteOnNonOutputStays ==
    /\ []C3_SetByWriteValue
    /\ [][(GetErrorMode = WRITE_NOT_OUTPUT /\ NoViolationStep(ErrInputs))
            => GetErrorMode' = WRITE_NOT_OUTPUT]_vars

\* The part of C3 the code keeps: the same, for every call that commits no
\* violation other than a writePort to port B.
C3_StaysApartFromPortB ==
    /\ []C3_SetByWriteValue
    /\ [][(/\ GetErrorMode = WRITE_NOT_OUTPUT
           /\ NoViolationStep(ErrInputs)
           /\ ~\E w \in ErrInputs.portWrites :
                 w[1] >= PortBStart /\ WritePort(w[1], w[2]))
            => GetErrorMode' = WRITE_NOT_OUTPUT]_vars

\* C4: every operation that takes a pin, called with a pin of 16 or more,
\* leaves last-error equal to pin-index-out-of-range.
C4_PinTooHighReported ==
    /\ \A pin \in ErrInputs.dirPins :
          pin > LastPin => PinDirectionErrors(pin) = {PIN_TOO_HIGH}
    /\ \A pin \in ErrInputs.pins :
          pin > LastPin =>
             /\ WriteValueErrors(pin) = {PIN_TOO_HIGH}
             /\ ReadValueErrors(pin) = {PIN_TOO_HIGH}
    /\ \A w \in ErrInputs.portWrites :
          w[1] > LastPin =>
             /\ WritePortError(w[1]) = PIN_TOO_HIGH
             /\ ReadPortError(w[1]) = PIN_TOO_HIGH
    /\ \A pin \in ErrInputs.intPins :
          pin > LastPin => AttachInterruptError(pin) = PIN_TOO_HIGH

\* C5: writePort with a pin 0..15 flags write-on-non-output exactly when one
\* of the eight pins of the selected port is not OUTPUT, and otherwise leaves
\* last-error unchanged.
C5_WritePortFlagsNonOutput ==
    \A w \in ErrInputs.portWrites :
       w[1] <= LastPin =>
          WritePortError(w[1]) = IF \E i \in PortOf(w[1]) : pinModes[i] # OUTPUT
                                 THEN WRITE_NOT_OUTPUT ELSE GetErrorMode

\* C6: readValue flags read-on-non-input exactly when the pin is not INPUT or
\* INPUT_PULLUP; readPort exactly when one of the eight pins of the selected
\* port, its last pin 7 or 15 included, is not; otherwise last-error is
\* unchanged.
C6_ReadValueFlags ==
    \A pin \in ErrInputs.pins :
       pin <= LastPin =>
          ReadValueErrors(pin) = {IF ~IsInputMode(pinModes[pin])
                                  THEN READ_NOT_INPUT ELSE GetErrorMode}

C6_ReadFlagsNonInput ==
    /\ C6_ReadValueFlags
    /\ \A w \in ErrInputs.portWrites :
          w[1] <= LastPin =>
             ReadPortError(w[1]) =
                IF \E i \in PortOf(w[1]) : ~IsInputMode(pinModes[i])
                THEN READ_NOT_INPUT ELSE GetErrorMode

\* The part of C6 the code keeps: readValue as stated, and readPort over the
\* first seven pins of the port.
C6_ReadFlagsFirstSeven ==
    /\ C6_ReadValueFlags
    /\ \A w \in ErrInputs.portWrites :
          w[1] <= LastPin =>
             ReadPortError(w[1]) =
                IF \E i \in PortOf(w[1]) \ {7, LastPin} : ~IsInputMode(pinModes[i])
                THEN READ_NOT_INPUT ELSE GetErrorMode

\* The violation a call commits: a pin past the table, else a write to a pin
\* that is not OUTPUT, else a read of a pin that is not an input; NO_ERROR
\* for none.
WriteViolation(pins) ==
    IF \E i \in pins : i > LastPin THEN PIN_TOO_HIGH
    ELSE IF \E i \in pins : pinModes[i] # OUTPUT THEN WRITE_NOT_OUTPUT
    ELSE NO_ERROR
ReadViolation(pins) ==
    IF \E i \in pins : i > LastPin THEN PIN_TOO_HIGH
    ELSE IF \E i \in pins : ~IsInputMode(pinModes[i]) THEN READ_NOT_INPUT
    ELSE NO_ERROR
PinViolation(pin) == IF pin > LastPin THEN PIN_TOO_HIGH ELSE NO_ERROR
\* last-error after a call that commits violation v.
Recorded(v) == IF v = NO_ERROR THEN GetErrorMode ELSE v

\* C7: getErrorMode() reports the most recent violation committed, and
\* no-error if and only if none was: every call that commits a violation
\* leaves its kind in last-error, and every other call leaves last-error as
\* it was.
C7_CallsRecordTheirViolation ==
    /\ \A pin \in ErrInputs.dirPins :
          PinDirectionErrors(pin) = {Recorded(PinViolation(pin))}
    /\ \A pin \in ErrInputs.pins :
          /\ WriteValueErrors(pin) = {Recorded(WriteViolation({pin}))}
          /\ ReadValueErrors(pin) = {Recorded(ReadViolation({pin}))}
    /\ \A w \in ErrInputs.portWrites :
          /\ WritePortError(w[1]) = Recorded(WriteViolation({w[1]} \cup PortOf(w[1])))
          /\ ReadPortError(w[1]) = Recorded(ReadViolation({w[1]} \cup PortOf(w[1])))
    /\ \A pin \in ErrInputs.intPins :
          AttachInterruptError(pin) = Recorded(PinViolation(pin))

C7_LastViolationReported ==
    /\ []C7_CallsRecordTheirViolation
    /\ [][(\/ ResetIo \/ RunLoop \/ PinDirectionEachStep(ErrInputs)
           \/ \E runLoopNo \in Slots, val \in ErrInputs.seeds :
                 SetValueForReading(runLoopNo, val))
            => GetErrorMode' = GetErrorMode]_vars

\* --------------------------------------------------------------------- C10
\* C10: after attachInterrupt(pin, H, mode) with a non-null H,
\* isIntRegisteredAs(pin, mode) is true and getInterruptFunction() returns H,
\* and every call other than attachInterrupt keeps the registration.
C10_RegistrationBody(U) ==
    /\ \A pin \in U.intPins, h \in U.handlers, mode \in U.intModes :
          AttachInterrupt(pin, h, mode) =>
             /\ IsIntRegisteredAs(pin, mode)'
             /\ GetInterruptFunction' = h
    /\ ~AttachInterruptStep(U) =>
          \A pin \in U.intPins, mode \in U.intModes :
             IsIntRegisteredAs(pin, mode) =>
                /\ IsIntRegisteredAs(pin, mode)'
                /\ GetInterruptFunction' = GetInterruptFunction

C10_RegistrationKept == [][C10_RegistrationBody(IntInputs)]_vars

\* The part of C10 the code keeps: the same, over every step other than a
\* pinDirection call with a pin past the table.
C10_RegistrationKeptInsideTable ==
    [][~WildStep(IntInputs) => C10_RegistrationBody(IntInputs)]_vars

\* --------------------------------------------------------------------- C11
\* The writes of register reg and the reads in a sequence of transactions.
WritesOf(b, reg) ==
    LET hit(t) == t.op = "write" /\ t.reg = reg IN SelectSeq(b, hit)
ReadsOf(b) ==
    LET hit(t) == t.op = "read" IN SelectSeq(b, hit)

\* The traffic of one sync: a write of the data register with the full cache
\* if and only if dirty, and exactly one read, of the data register, last.
SyncTraffic(b, dirty, reg, cache, level) ==
    /\ WritesOf(b, reg) = IF dirty THEN <<BusWrite(reg, cache)>> ELSE <<>>
    /\ ReadsOf(b) = <<BusRead(reg, level)>>
    /\ b[Len(b)] = BusRead(reg, level)

C11_SyncTrafficOfEachDriver ==
    /\ backend = "PCF8574" =>
          \A level \in Pcf8574Inputs.levels :
             SyncTraffic(Pcf8574RunLoopBus(level), needsWrite8574, NoReg,
                         toWrite, level)
    /\ backend = "MCP23017" =>
          \A level \in Mcp23017Inputs.levels :
             SyncTraffic(Mcp23017RunLoopBus(level), needsWrite23017, GPIO_ADDR,
                         portCache, level)

SyncStep ==
    \/ \E level \in Pcf8574Inputs.levels :
          backend = "PCF8574" /\ Pcf8574RunLoop(level)
    \/ \E level \in Mcp23017Inputs.levels :
          backend = "MCP23017" /\ Mcp23017RunLoop(level)

\* The register configuration calls of the 16-bit driver.
RegisterStep ==
    \/ \E pin \in Mcp23017Inputs.pins, mode \in Mcp23017Inputs.modes :
          backend = "MCP23017" /\ Mcp23017PinDirection(pin, mode)
    \/ \E pin \in Mcp23017Inputs.pins, mode \in Mcp23017Inputs.intModes :
          backend = "MCP23017" /\ Mcp23017AttachInterrupt(pin, mode)

\* C12: sync() is the only operation that causes bus traffic: setDirection,
\* writeValue, readValue, writePort, readPort and attachInterrupt issue no
\* bus read or write, the 16-bit driver's direction, pull-up and interrupt
\* register configuration included.
C12_OnlySyncUsesBus == [][~SyncStep => bus' = <<>>]_wireVars

\* The part of C12 the drivers keep: every call other than sync() and the
\* 16-bit driver's pinDirection and attachInterrupt issues nothing.
C12_OnlySyncAndRegistersUseBus ==
    [][~(SyncStep \/ RegisterStep) => bus' = <<>>]_wireVars

\* --------------------------------------------------------------------- C13
\* A writeValue, writePort or setDirection call, on either driver.
WriteOrDirectionStep ==
    \/ \E pin \in Pcf8574Inputs.pins, value \in Pcf8574Inputs.values :
          backend = "PCF8574" /\ Pcf8574WriteValue(pin, value)
    \/ \E pin \in Pcf8574Inputs.pins, port \in Pcf8574Inputs.ports :
          backend = "PCF8574" /\ Pcf8574WritePort(pin, port)
    \/ \E pin \in Pcf8574Inputs.pins, mode \in Pcf8574Inputs.modes :
          backend = "PCF8574" /\ Pcf8574PinDirection(pin, mode)
    \/ \E pin \in Mcp23017Inputs.pins, value \in Mcp23017Inputs.values :
          backend = "MCP23017" /\ Mcp23017WriteValue(pin, value)
    \/ \E w \in Mcp23017Inputs.portWrites :
          backend = "MCP23017" /\ Mcp23017WritePort(w[1], w[2])
    \/ \E pin \in Mcp23017Inputs.pins, mode \in Mcp23017Inputs.modes :
          backend = "MCP23017" /\ Mcp23017PinDirection(pin, mode)

\* What the reads of a driver return stays as it is over a step.
ReadsKept ==
    /\ \A pin \in 0..7 :
          /\ Pcf8574ReadValueReturn(pin)' = Pcf8574ReadValueReturn(pin)
          /\ Pcf8574ReadPortReturn(pin)' = Pcf8574ReadPortReturn(pin)
    /\ \A pin \in 0..LastPin :
          /\ Mcp23017ReadValueReturn(pin)' = Mcp23017ReadValueReturn(pin)
          /\ Mcp23017ReadPortReturn(pin)' = Mcp23017ReadPortReturn(pin)

\* The reads return the bits sync() has just read.
ReadsShowSync ==
    /\ \A level \in Pcf8574Inputs.levels :
          (backend = "PCF8574" /\ Pcf8574RunLoop(level)) =>
             /\ Pcf8574ReadPortReturn(0)' = level
             /\ \A pin \in 0..7 : Pcf8574ReadValueReturn(pin)' = BitRead(level, pin)
    /\ \A level \in Mcp23017Inputs.levels :
          (backend = "MCP23017" /\ Mcp23017RunLoop(level)) =>
             /\ Mcp23017ReadPortReturn(0)' = LowByte(level)
             /\ Mcp23017ReadPortReturn(PortBStart)' = HighByte(level)
             /\ \A pin \in 0..LastPin :
                   Mcp23017ReadValueReturn(pin)' = BitRead(level, pin)

\* C13: readValue and readPort return bits of the input bitmap the most
\* recent sync() populated; between two syncs no writeValue, writePort or
\* setDirection call changes what they return, on either driver.
C13_ReadsShowLastSync ==
    [][ReadsShowSync /\ (WriteOrDirectionStep => ReadsKept)]_wireVars

\* The part of C13 the drivers keep: the reads return what sync() read, and
\* on the 8-bit driver, and over the 16-bit driver's setDirection, they keep
\* returning it.
C13_ReadsShowLastSyncOn8574 ==
    [][/\ ReadsShowSync
       /\ (/\ WriteOrDirectionStep
           /\ ~\E pin \in Mcp23017Inputs.pins, value \in Mcp23017Inputs.values :
                 backend = "MCP23017" /\ Mcp23017WriteValue(pin, value)
           /\ ~\E w \in Mcp23017Inputs.portWrites :
                 backend = "MCP23017" /\ Mcp23017WritePort(w[1], w[2]))
            => ReadsKept]_wireVars

\* --------------------------------------------------------------------- C14
\* The transactions of a sequence that touch the data register.
DataTransfersOf(b) ==
    LET hit(t) == t.reg = GPIO_ADDR IN SelectSeq(b, hit)

\* What the calls would put on the bus: only a sync() with initialisation
\* pending writes the configuration register, once, before anything else.
C14_ConfigOnlyFromPendingSync ==
    backend = "MCP23017" =>
       /\ \A level \in Mcp23017Inputs.levels :
             LET b == Mcp23017RunLoopBus(level)
             IN IF needsInit
                THEN /\ WritesOf(b, IOCON_ADDR) = <<BusWrite(IOCON_ADDR, ConfigWord)>>
                     /\ b[1] = BusWrite(IOCON_ADDR, ConfigWord)
                ELSE WritesOf(b, IOCON_ADDR) = <<>>
       /\ \A pin \in Mcp23017Inputs.pins, mode \in Mcp23017Inputs.modes :
             LET b == Mcp23017PinDirectionBus(pin, mode)
             IN WritesOf(b, IOCON_ADDR) = <<>> /\ DataTransfersOf(b) = <<>>
       /\ \A pin \in Mcp23017Inputs.pins, mode \in Mcp23017Inputs.intModes :
             LET b == Mcp23017AttachInterruptBus(pin, mode)
             IN WritesOf(b, IOCON_ADDR) = <<>> /\ DataTransfersOf(b) = <<>>

\* C14: the 16-bit driver writes the configuration register on the first
\* sync() after construction and never again, whatever direction, write,
\* read, attachInterrupt or sync calls follow, and no transfer of the data
\* register precedes that write.
C14_InitOnceOnFirstSync ==
    /\ []C14_ConfigOnlyFromPendingSync
    /\ [][backend = "MCP23017" =>
            /\ (\E level \in Mcp23017Inputs.levels : Mcp23017RunLoop(level))
                  => /\ ~needsInit'
                     /\ WritesOf(bus', IOCON_ADDR) =
                          IF needsInit THEN <<BusWrite(IOCON_ADDR, ConfigWord)>>
                          ELSE <<>>
                     /\ needsInit => bus'[1] = BusWrite(IOCON_ADDR, ConfigWord)
            /\ (~\E level \in Mcp23017Inputs.levels : Mcp23017RunLoop(level))
                  => /\ needsInit' = needsInit
                     /\ WritesOf(bus', IOCON_ADDR) = <<>>
                     /\ needsInit => DataTransfersOf(bus') = <<>>
         ]_wireVars

\* A shared interrupt pin, initialised by an earlier sync(), and a later
\* sync() whose traffic is the read alone.
C14_Witness ==
    /\ backend = "MCP23017"
    /\ ~needsInit
    /\ wiring.intPinA = wiring.intPinB /\ wiring.intPinA # NoIntPin
    /\ device[IOCON_ADDR] = ConfigWord
    /\ Len(bus) = 1 /\ bus[1].op = "read" /\ bus[1].reg = GPIO_ADDR

\* --------------------------------------------------------------------- C15
\* The cache setDirection(pin, INPUT or INPUT_PULLUP) would leave: the pin's
\* bit high, the other seven bits as they are, the dirty flag set.
C15_InputWouldWriteHigh ==
    backend = "PCF8574" =>
       \A pin \in Pcf8574Inputs.pins, mode \in {INPUT, INPUT_PULLUP} :
          /\ \A w \in Pcf8574DirectionCache(pin, mode) :
                /\ BitRead(w, pin) = 1
                /\ \A other \in (0..7) \ {pin} :
                      BitRead(w, other) = BitRead(toWrite, other)
          /\ Pcf8574DirectionDirty(mode) = {TRUE}

\* C15: on the 8-bit driver setDirection(pin, INPUT) and setDirection(pin,
\* INPUT_PULLUP), pin in 0..7, set the pin's bit of the pending output cache
\* high at once, mark the cache dirty, and leave the other seven bits.
C15_InputWritesHigh ==
    /\ []C15_InputWouldWriteHigh
    /\ [][\A pin \in Pcf8574Inputs.pins, mode \in {INPUT, INPUT_PULLUP} :
             (backend = "PCF8574" /\ Pcf8574PinDirection(pin, mode)) =>
                /\ BitRead(toWrite', pin) = 1
                /\ \A other \in (0..7) \ {pin} :
                      BitRead(toWrite', other) = BitRead(toWrite, other)
                /\ needsWrite8574'
                /\ bus' = <<>>
         ]_wireVars

\* Pin 7 made an input on a driver that has written nothing else and has
\* not synced since: the cache is 0x80 and dirty.
C15_Witness ==
    /\ backend = "PCF8574"
    /\ toWrite = 128
    /\ needsWrite8574
    /\ bus = <<>>

\* --------------------------------------------------------------------- C16
\* C16: every operation applied through the decorator leaves the wrapped
\* mock in the state the same operation applied directly leaves it in (slot
\* index, write and read bitmaps, pin modes, last-error, interrupt
\* registration), and returns what the mock returns.
C16_DecoratorPreservesBehaviour ==
    [][/\ LogRunLoop => RunLoop
       /\ \A pin \in LogInputs.dirPins, mode \in LogInputs.modes :
             LogPinDirection(pin, mode, LogInputs)
                => PinDirection(pin, mode, LogInputs)
       /\ \A pin \in LogInputs.pins, value \in LogInputs.values :
             LogWriteValue(pin, value) => WriteValue(pin, value)
       /\ \A w \in LogInputs.portWrites :
             LogWritePort(w[1], w[2]) => WritePort(w[1], w[2])
      ]_<<vars, logVars>>

\* The part of C16 the code keeps: runLoop() through the decorator leaves all
\* of the mock but last-error as a direct runLoop() does, and last-error too
\* when no port is logged; the other operations are the mock's own.
C16_PreservesApartFromLoggedReads ==
    [][/\ LogRunLoop =>
             /\ runLoopCalls' = (runLoopCalls + 1) % numberOfCycles
             /\ writeValues' = [writeValues EXCEPT
                                  ![runLoopCalls'] = writeValues[runLoopCalls]]
             /\ UNCHANGED <<pinModes, readValues, numberOfCycles,
                            intHandler, intPin, intMode>>
             /\ ports = 0 => error' = error
       /\ \A pin \in LogInputs.dirPins, mode \in LogInputs.modes :
             LogPinDirection(pin, mode, LogInputs)
                => PinDirection(pin, mode, LogInputs)
       /\ \A pin \in LogInputs.pins, value \in LogInputs.values :
             LogWriteValue(pin, value) => WriteValue(pin, value)
       /\ \A w \in LogInputs.portWrites :
             LogWritePort(w[1], w[2]) => WritePort(w[1], w[2])
      ]_<<vars, logVars>>

\* --------------------------------------------------------------------- C17
\* C17: getNumberOfRunLoops() returns the number of runLoop() calls since
\* construction or the last resetIo(), counts of N and more included: a
\* runLoop() call takes a right count to the next right count, and resetIo()
\* takes it to zero.
C17_CountsEveryRunLoop ==
    [][/\ (GetNumberOfRunLoops = syncs /\ RunLoop)
             => GetNumberOfRunLoops' = syncs + 1
       /\ ResetIo => GetNumberOfRunLoops' = 0
      ]_vars

\* The part of C17 the code keeps: the count is right while fewer than N
\* calls have been made.
C17_CountsBelowSlotCount ==
    [][/\ (GetNumberOfRunLoops = syncs /\ RunLoop /\ syncs + 1 < numberOfCycles)
             => GetNumberOfRunLoops' = syncs + 1
       /\ ResetIo => GetNumberOfRunLoops' = 0
      ]_vars

\* --------------------------------------------------------------------- C18
\* The table accesses of the calls with a pin inside the table, and of the
\* port calls with any pin.
C18_InBoundsInsideTable(U) ==
    /\ \A pin \in U.dirPins :
          pin <= LastPin => PinDirectionAccess(pin) \subseteq TableIndices
    /\ \A pin \in U.pins :
          pin <= LastPin =>
             /\ WriteValueAccess(pin) \subseteq TableIndices
             /\ ReadValueAccess(pin) \subseteq TableIndices
    /\ \A w \in U.portWrites :
          /\ WritePortAccess(w[1]) \subseteq TableIndices
          /\ ReadPortAccess(w[1]) \subseteq TableIndices

\* C18: whatever the pin argument, the mode table is read and written at
\* indices 0..15 only, and the current index stays in 0..N-1.
C18_TableAccessInBounds ==
    /\ [](runLoopCalls \in Slots /\ C18_InBoundsInsideTable(ErrInputs))
    /\ [][/\ \A pin \in ErrInputs.dirPins, mode \in ErrInputs.modes :
               PinDirection(pin, mode, ErrInputs)
                  => PinDirectionAccess(pin) \subseteq TableIndices
          /\ \A pin \in ErrInputs.pins, value \in ErrInputs.values :
               WriteValue(pin, value)
                  => WriteValueAccess(pin) \subseteq TableIndices
          /\ \A pin \in ErrInputs.pins :
               ReadValue(pin) => ReadValueAccess(pin) \subseteq TableIndices
         ]_vars

\* The part of C18 the code keeps: pins 0..15, and the port calls.
C18_InBoundsForPinsInsideTable == C18_InBoundsInsideTable(ErrInputs)

\* --------------------------------------------------------------------- C19
\* C19: runLoop() changes only the current index and the write bitmap of the
\* slot it advances into; the slot just left and all other slots, the pin
\* modes, last-error and the interrupt registration are unchanged, so with
\* N >= 2 getWrittenValue(i) right after leaving slot i returns what cycle i
\* wrote.
C19_RunLoopFrame ==
    [][RunLoop =>
          /\ \A s \in Slots \ {runLoopCalls'} : writeValues'[s] = writeValues[s]
          /\ numberOfCycles >= 2 =>
                GetWrittenValue(runLoopCalls)' = writeValues[runLoopCalls]
          /\ readValues' = readValues
          /\ pinModes' = pinModes
          /\ GetErrorMode' = GetErrorMode
          /\ GetInterruptFunction' = GetInterruptFunction
          /\ intPin' = intPin /\ intMode' = intMode
          /\ numberOfCycles' = numberOfCycles
      ]_vars

\* Two slots, 0xAB written to port A in cycle 0, one sync: slot 0, just left,
\* still holds 0xAB, and so does slot 1.
C19_Witness ==
    /\ numberOfCycles = 2
    /\ syncs = 1
    /\ runLoopCalls = 1
    /\ GetWrittenValue(0) = 171
    /\ GetWrittenValue(1) = 171

====
